---- MODULE Spec2Model ----
(***************************************************************************)
(* Compression orchestration of mydevicemypdf: compressPDF and             *)
(* runLosslessEngines (src/lib/pdf-security.ts) and compressExtreme        *)
(* (src/lib/pdf-compressor-mupdf.ts), one request, one step per stretch of *)
(* code between two awaits (Spec, SpecSink); concurrent calls of the qpdf, *)
(* ghostscript and mupdf adapters with their module caches and scratch     *)
(* files (src/lib/pdf-annotations.ts, SpecAdapters); and the handlers of   *)
(* the compress page (src/pages/PdfToPdfaPage.tsx, SpecPage).              *)
(***************************************************************************)
EXTENDS Integers, Sequences, FiniteSets, TLC

(* ---- bounds of the model ---- *)

\* blob and file sizes are drawn from 0..MaxSize
MaxSize == 2

\* input documents have 0..MaxPages pages
MaxPages == 2

\* the progress bands are also examined for every list of 1..MaxEngines
\* backends
MaxEngines == 6

\* the adapter calls made in one process
MaxCalls == 2

(* ---- program constants ---- *)

\* compressPDF: `compressionLevel = 70` when the option is absent
DefaultCompressionLevel == 70

\* stands for an absent (undefined) compressionLevel option
Absent == -1

Qualities == {"lossless", "extreme"}

\* the compressionLevel options a caller passes: none, the ends of the
\* slider, a value outside the slider's range
Levels == {Absent, 0, 99, 150}

\* the registered backends, in registration order
LOSSLESS_ENGINES ==
  << [engine |-> "mupdf",       label |-> "MuPDF"],
     [engine |-> "pdf-lib",     label |-> "pdf-lib"],
     [engine |-> "ghostscript", label |-> "Ghostscript"],
     [engine |-> "qpdf",        label |-> "QPDF"] >>

totalEngines == Len(LOSSLESS_ENGINES)

\* a nullable value is a sequence: empty for null or undefined, else one
\* element
Null == << >>

Some(v) == << v >>

Val(o) == o[1]

(* ---- values a backend can throw ---- *)

ErrorObj(m) == [kind |-> "Error", message |-> m]

StringVal(s) == [kind |-> "string", message |-> s]

\* a thrown value that is neither an Error nor a string (undefined, an object)
OtherVal == [kind |-> "other", message |-> ""]

\* strings made of white space only; String.prototype.trim maps them to ""
Blank == {"", "  "}

Trim(s) == IF s \in Blank THEN "" ELSE s

ThrownValues ==
  { ErrorObj("out of memory"), ErrorObj("  "), StringVal("exit code 1"),
    StringVal(""), OtherVal }

(* ---- pure functions ---- *)

\* the message is passed on without the fallback
toErrorMessageRaw(error) == error.message

toErrorMessage(error) ==
  IF error.kind = "Error" /\ Trim(error.message) # "" THEN error.message
  ELSE IF error.kind = "string" /\ Trim(error.message) # "" THEN error.message
  ELSE "Unknown compression error"

\* Math.round(x) for x = num / den, den > 0: floor(x + 1/2)
MathRound(num, den) == (2 * num + den) \div (2 * den)

getCompressionPercent(original, compressed) ==
  IF original = 0 THEN 0
  ELSE MathRound((original - compressed) * 100, original)

\* a File: its size, its name as stem and extension, its page count
Files ==
  [size : 0..MaxSize, stem : {"doc"}, ext : {".pdf"}, pages : 0..MaxPages]

\* file.name.replace(/\.pdf$/i, '')
baseNameFor(file) ==
  IF file.ext \in {".pdf", ".PDF"} THEN file.stem ELSE file.stem \o file.ext

\* the engine ids all lie in [a-z0-9-], so the replace leaves them alone
getEngineFileName(baseName, engine) ==
  baseName \o "_compressed_" \o engine \o ".pdf"

\* page.getBounds() of the pages a document can have: [x0, y0, x1, y1]
PageBounds == { << 0, 0, 2, 3 >>, << 1, 1, 4, 3 >> }

\* the documents mupdf can open: the bounds of each of their pages
Documents == UNION { [1..n -> PageBounds] : n \in 0..MaxPages }

\* a Blob: who produced it and its size
Blob(by, size) == [by |-> by, size |-> size]

SuccessResult(runner, blob, originalSize, baseName) ==
  [ engine |-> runner.engine,
    label |-> runner.label,
    status |-> "success",
    compressedSize |-> Some(blob.size),
    compressionPercent |->
      Some(getCompressionPercent(originalSize, blob.size)),
    blob |-> Some(blob),
    fileName |-> Some(getEngineFileName(baseName, runner.engine)),
    error |-> Null ]

\* a failure is recorded with a size of 0
FailedResultSized(runner, error) ==
  [ engine |-> runner.engine,
    label |-> runner.label,
    status |-> "failed",
    compressedSize |-> Some(0),
    compressionPercent |-> Null,
    blob |-> Null,
    fileName |-> Null,
    error |-> Some(toErrorMessage(error)) ]

FailedResult(runner, error) ==
  [ engine |-> runner.engine,
    label |-> runner.label,
    status |-> "failed",
    compressedSize |-> Null,
    compressionPercent |-> Null,
    blob |-> Null,
    fileName |-> Null,
    error |-> Some(toErrorMessage(error)) ]

\* the bands are spread over 0..100
startProgressFull(index, total) == (index * 100) \div total

\* 10 + Math.floor((index / total) * 80)
startProgress(index, total) == 10 + ((index * 80) \div total)

\* the band is spread over 100 instead of 80
doneProgressWide(index, total) == 10 + (((index + 1) * 100) \div total)

\* 10 + Math.floor(((index + 1) / total) * 80)
doneProgress(index, total) == 10 + (((index + 1) * 80) \div total)

Event(percent, status) == [percent |-> percent, status |-> status]

RunningStatus(runner, index) ==
  "Running " \o runner.label \o " (" \o ToString(index + 1) \o "/"
    \o ToString(totalEngines) \o ")..."

FinishedStatus(runner) == "Finished " \o runner.label

RECURSIVE InsertSortedUnstable(_, _)
\* puts r before the elements of equal size
InsertSortedUnstable(sorted, r) ==
  IF sorted = << >> THEN << r >>
  ELSE IF Val(Head(sorted).compressedSize) - Val(r.compressedSize) >= 0
       THEN << r >> \o sorted
  ELSE << Head(sorted) >> \o InsertSortedUnstable(Tail(sorted), r)

RECURSIVE InsertSorted(_, _)
\* puts r after every element that does not compare greater than it
InsertSorted(sorted, r) ==
  IF sorted = << >> THEN << r >>
  ELSE IF Val(Head(sorted).compressedSize) - Val(r.compressedSize) > 0
       THEN << r >> \o sorted
  ELSE << Head(sorted) >> \o InsertSorted(Tail(sorted), r)

\* the comparator always answers 0: nothing is moved
SortBySizeNone(s) == s

RECURSIVE SortBySize(_)
\* Array.prototype.filter is SelectSeq;
\* Array.prototype.sort with (a, b) => a.compressedSize - b.compressedSize;
\* the sort is stable (ECMAScript 2019)
SortBySize(s) ==
  IF s = << >> THEN << >>
  ELSE InsertSorted(SortBySize(SubSeq(s, 1, Len(s) - 1)), s[Len(s)])

IsSuccessful(result) ==
  result.status = "success" /\ result.compressedSize # Null

IsNotSuccess(result) == result.status # "success"

\* the failed results are forgotten
sortLosslessResultsDropsFailed(rs) == SortBySize(SelectSeq(rs, IsSuccessful))

\* the results are returned as they were pushed
sortLosslessResultsUnsorted(rs) == rs

sortLosslessResults(rs) ==
  SortBySize(SelectSeq(rs, IsSuccessful)) \o SelectSeq(rs, IsNotSuccess)

IsSuccess(result) == result.status = "success"

\* the last successful result is taken, as if the list were sorted descending
findBestLast(ordered) ==
  LET hits == SelectSeq(ordered, IsSuccess)
  IN  IF hits = << >> THEN Null ELSE Some(hits[Len(hits)])

\* engineResults.find(...): the first element passing the test, Null for
\* undefined
findBest(ordered) ==
  LET hits == SelectSeq(ordered, IsSuccess)
  IN  IF hits = << >> THEN Null ELSE Some(hits[1])

RECURSIVE Join(_, _)
\* Array.prototype.join
Join(parts, sep) ==
  IF parts = << >> THEN ""
  ELSE IF Len(parts) = 1 THEN parts[1]
  ELSE parts[1] \o sep \o Join(Tail(parts), sep)

\* result.error is truthy
HasError(result) == result.error # Null /\ Val(result.error) # ""

SummaryEntry(result) == result.label \o ": " \o Val(result.error)

failureSummary(ordered) ==
  LET withError == SelectSeq(ordered, HasError)
  IN  Join([i \in 1..Len(withError) |-> SummaryEntry(withError[i])], " | ")

\* the message of the Error compressPDF throws when no backend succeeded
allFailedMessage(ordered) ==
  IF failureSummary(ordered) # "" THEN failureSummary(ordered)
  ELSE "All compression engines failed"

(* ---- state ---- *)

VARIABLES
  pc,             \* where the request is
  file,           \* the input File
  quality,        \* options.quality
  levelOpt,       \* options.compressionLevel, Absent when not passed
  index,          \* loop index of runLosslessEngines
  runs,           \* the calls runner.run(file) made so far and how each ended
  results,        \* runLosslessEngines' results array (invocation order)
  streamed,       \* the results passed to onEngineResult
  progress,       \* the events passed to onProgress
  engineResults,  \* what runLosslessEngines returned
  outcome,        \* what compressPDF resolved with
  error,          \* the message compressPDF rejected with
  pageIndex,      \* loop index i of compressExtreme
  outPages,       \* the pages added to the output document
  mupdfDoc,       \* the bounds of the pages of the opened input document
  rendered,       \* the pages rendered to a pixmap and encoded so far
  pixmaps,        \* the pages whose pixmap is still allocated in the WASM heap
  streamedAt      \* per onEngineResult call, the onProgress calls made before

VARIABLES
  callPc,         \* where each adapter call is
  callEngine,     \* the adapter each call is a call of
  callInit,       \* whether the call entered the initialization or reused it
  callRunId,      \* the runId the call created, 0 before
  callExit,       \* what callMain returned to the call
  callError,      \* what the call threw
  modulePromise,  \* qpdfModulePromise and ghostscriptModulePromise
  mupdf,          \* the cached mupdf module
  fs              \* the files in the file system of each WASM module

adapterVars ==
  << callPc, callEngine, callInit, callRunId, callExit, callError,
     modulePromise, mupdf, fs >>

VARIABLES
  uiFile,          \* CompressPage: file
  isProcessing,    \* CompressPage: isProcessing
  uiProgress,      \* CompressPage: progress
  progressStatus,  \* CompressPage: progressStatus
  uiResult,        \* CompressPage: result
  partialResults,  \* CompressPage: partialResults
  uiError,         \* CompressPage: error
  inflight         \* the file of the compressPDF call handleCompress awaits

pageVars ==
  << uiFile, isProcessing, uiProgress, progressStatus, uiResult,
     partialResults, uiError, inflight >>

requestVars ==
  << pc, file, quality, levelOpt, index, runs, results, streamed, progress,
     engineResults, outcome, error, pageIndex, outPages, mupdfDoc,
     rendered, pixmaps, streamedAt >>

\* the variables of the adapters and of the page, which a request leaves alone
outside == << adapterVars, pageVars >>

(* ---- adapter calls, module caches and scratch files ---- *)

Calls == 1..MaxCalls

\* the adapters that cache an execution environment
AdapterEngines == {"mupdf", "qpdf", "ghostscript"}

\* the adapters that run a WASM module with a file system of its own
WasmEngines == {"qpdf", "ghostscript"}

\* what createRunId can return; two calls may get the same one
RunIds == {1, 2}

\* `/${runId}-input.pdf` and `/${runId}-output.pdf`
inputPath(runId) == << runId, "input" >>

outputPath(runId) == << runId, "output" >>

\* module.FS.writeFile(path, bytes) by call c: creates or replaces the file
writeFile(files, path, c) ==
  { f \in files : f.path # path } \cup { [path |-> path, by |-> c] }

\* the file is left in place
safeUnlinkKeeps(files, path) == files

\* module.FS.unlink(path) in a try whose catch is empty
safeUnlink(files, path) == { f \in files : f.path # path }

Exists(files, path) == \E f \in files : f.path = path

\* what the import() or the module factory of an engine rejects with
InitError(engine) == ErrorObj("Failed to load " \o engine)

ExitError(engine, exitCode) ==
  ErrorObj((IF engine = "qpdf" THEN "QPDF" ELSE "Ghostscript")
             \o " exited with code " \o ToString(exitCode))

\* FS.readFile of a missing file, and callMain aborting
ReadError == ErrorObj("ENOENT")

MainError == ErrorObj("Aborted()")

\* callMain: the exit code, whether it wrote the output file, whether it threw
MainOutcomes ==
  [exitCode : {0, 1}, output : BOOLEAN, threw : {FALSE}]
    \cup { [exitCode |-> 0, output |-> FALSE, threw |-> TRUE] }

NoExit == [exitCode |-> 0, output |-> FALSE, threw |-> FALSE]

\* a rejected promise is replaced by a new attempt
loadModuleRetries(promise) ==
  IF promise \in {"null", "rejected"} THEN "pending" ELSE promise

\* loadQpdfModule / loadGhostscriptModule: `if (!promise) promise = import(...)`
loadModule(promise) ==
  IF promise = "null" THEN "pending" ELSE promise

\* no position is inside a synchronous stretch
OnStackNever(c) == FALSE

\* call c is between two awaits: it runs to completion before any other
\* call or callback runs
OnStack(c) == callPc[c] \in {"written", "ran", "cleanup"}

Busy == \E d \in Calls : OnStack(d)

AdaptersIdle ==
  /\ callPc = [c \in Calls |-> "idle"]
  /\ callEngine = [c \in Calls |-> "mupdf"]
  /\ callInit = [c \in Calls |-> "none"]
  /\ callRunId = [c \in Calls |-> 0]
  /\ callExit = [c \in Calls |-> NoExit]
  /\ callError = [c \in Calls |-> Null]
  /\ modulePromise = [e \in WasmEngines |-> "null"]
  /\ mupdf = "null"
  /\ fs = [e \in WasmEngines |-> {}]

\* compressLosslessQpdf / compressLosslessGhostscript up to
\* `await loadQpdfModule()`
compressLosslessStarts(c) ==
  /\ callPc[c] = "idle"
  /\ callEngine[c] \in WasmEngines
  /\ ~Busy
  /\ LET e == callEngine[c]
         promise == loadModule(modulePromise[e])
     IN  /\ modulePromise' = [modulePromise EXCEPT ![e] = promise]
         /\ callInit' =
              [callInit EXCEPT ![c] =
                 IF promise # modulePromise[e] THEN "entered" ELSE "reused"]
  /\ callPc' = [callPc EXCEPT ![c] = "awaitModule"]
  /\ UNCHANGED << callEngine, callRunId, callExit, callError, mupdf, fs,
                  requestVars, pageVars >>

\* the import and the module factory of engine e settle
ModuleInitSettles(e, ok) ==
  /\ modulePromise[e] = "pending"
  /\ ~Busy
  /\ modulePromise' =
       [modulePromise EXCEPT ![e] = IF ok THEN "fulfilled" ELSE "rejected"]
  /\ UNCHANGED << callPc, callEngine, callInit, callRunId, callExit,
                  callError, mupdf, fs, requestVars, pageVars >>

\* `await loadQpdfModule()` returns the module or throws, then the call
\* awaits file.arrayBuffer()
ModuleAwaited(c) ==
  /\ callPc[c] = "awaitModule"
  /\ ~Busy
  /\ LET e == callEngine[c]
     IN  \/ /\ modulePromise[e] = "fulfilled"
            /\ callPc' = [callPc EXCEPT ![c] = "awaitBytes"]
            /\ UNCHANGED callError
         \/ /\ modulePromise[e] = "rejected"
            /\ callPc' = [callPc EXCEPT ![c] = "failed"]
            /\ callError' = [callError EXCEPT ![c] = Some(InitError(e))]
  /\ UNCHANGED << callEngine, callInit, callRunId, callExit, modulePromise,
                  mupdf, fs, requestVars, pageVars >>

\* createRunId and FS.writeFile(inputPath, inputBytes)
AdapterWritesInput(c, runId) ==
  /\ callPc[c] = "awaitBytes"
  /\ ~Busy
  /\ callRunId' = [callRunId EXCEPT ![c] = runId]
  /\ fs' = [fs EXCEPT ![callEngine[c]] = writeFile(@, inputPath(runId), c)]
  /\ callPc' = [callPc EXCEPT ![c] = "written"]
  /\ UNCHANGED << callEngine, callInit, callExit, callError, modulePromise,
                  mupdf, requestVars, pageVars >>

\* callMain([... inputPath, outputPath]) inside the try
AdapterCallsMain(c, main) ==
  /\ callPc[c] = "written"
  /\ callExit' = [callExit EXCEPT ![c] = main]
  /\ fs' = [fs EXCEPT ![callEngine[c]] =
              IF main.output THEN writeFile(@, outputPath(callRunId[c]), c)
              ELSE @]
  /\ IF main.threw
     THEN /\ callError' = [callError EXCEPT ![c] = Some(MainError)]
          /\ callPc' = [callPc EXCEPT ![c] = "cleanup"]
     ELSE /\ callPc' = [callPc EXCEPT ![c] = "ran"]
          /\ UNCHANGED callError
  /\ UNCHANGED << callEngine, callInit, callRunId, modulePromise, mupdf,
                  requestVars, pageVars >>

\* the exit code test, FS.readFile(outputPath) and the return of the blob
AdapterReadsOutput(c) ==
  /\ callPc[c] = "ran"
  /\ LET e == callEngine[c]
     IN  callError' =
           [callError EXCEPT ![c] =
              IF callExit[c].exitCode # 0
              THEN Some(ExitError(e, callExit[c].exitCode))
              ELSE IF Exists(fs[e], outputPath(callRunId[c])) THEN Null
              ELSE Some(ReadError)]
  /\ callPc' = [callPc EXCEPT ![c] = "cleanup"]
  /\ UNCHANGED << callEngine, callInit, callRunId, callExit, modulePromise,
                  mupdf, fs, requestVars, pageVars >>

\* the finally block, then the call resolves or rejects
AdapterCleansUp(c) ==
  /\ callPc[c] = "cleanup"
  /\ fs' = [fs EXCEPT ![callEngine[c]] =
              safeUnlink(safeUnlink(@, inputPath(callRunId[c])),
                         outputPath(callRunId[c]))]
  /\ callPc' =
       [callPc EXCEPT ![c] = IF callError[c] = Null THEN "done" ELSE "failed"]
  /\ UNCHANGED << callEngine, callInit, callRunId, callExit, callError,
                  modulePromise, mupdf, requestVars, pageVars >>

\* getMupdf up to `await import('mupdf')`, or its early return
getMupdfStarts(c) ==
  /\ callPc[c] = "idle"
  /\ callEngine[c] = "mupdf"
  /\ ~Busy
  /\ IF mupdf # "null"
     THEN /\ callInit' = [callInit EXCEPT ![c] = "reused"]
          /\ callPc' = [callPc EXCEPT ![c] = "done"]
     ELSE /\ callInit' = [callInit EXCEPT ![c] = "entered"]
          /\ callPc' = [callPc EXCEPT ![c] = "awaitImport"]
  /\ UNCHANGED << callEngine, callRunId, callExit, callError, modulePromise,
                  mupdf, fs, requestVars, pageVars >>

\* import('mupdf') settles: `mupdf = await import('mupdf')` or the throw
ImportSettles(c, ok) ==
  /\ callPc[c] = "awaitImport"
  /\ ~Busy
  /\ IF ok
     THEN /\ mupdf' = "module"
          /\ callPc' = [callPc EXCEPT ![c] = "done"]
          /\ UNCHANGED callError
     ELSE /\ callPc' = [callPc EXCEPT ![c] = "failed"]
          /\ callError' = [callError EXCEPT ![c] = Some(InitError("mupdf"))]
          /\ UNCHANGED mupdf
  /\ UNCHANGED << callEngine, callInit, callRunId, callExit, modulePromise,
                  fs, requestVars, pageVars >>

\* the state of CompressPage after its first render
PageIdle ==
  /\ uiFile = Null
  /\ isProcessing = FALSE
  /\ uiProgress = 0
  /\ progressStatus = "Compressing your PDF..."
  /\ uiResult = Null
  /\ partialResults = << >>
  /\ uiError = Null
  /\ inflight = Null

vars ==
  << outside, pc, file, quality, levelOpt, index, runs, results, streamed, progress,
     engineResults, outcome, error, pageIndex, outPages, mupdfDoc,
     rendered, pixmaps, streamedAt >>

Init ==
  /\ pc = "pending"
  /\ file \in Files
  /\ quality \in Qualities
  /\ levelOpt \in Levels
  /\ index = 0
  /\ runs = << >>
  /\ results = << >>
  /\ streamed = << >>
  /\ progress = << >>
  /\ engineResults = << >>
  /\ outcome = Null
  /\ error = Null
  /\ pageIndex = 0
  /\ outPages = << >>
  /\ mupdfDoc = << >>
  /\ rendered = << >>
  /\ pixmaps = {}
  /\ streamedAt = << >>
  /\ AdaptersIdle
  /\ PageIdle

(* ---- the structural path: compressPDF and runLosslessEngines ---- *)

originalSize == file.size

Executing(runner) ==
  [engine |-> runner.engine, state |-> "executing", blob |-> Null,
   thrown |-> Null]

Resolved(run, blob) == [run EXCEPT !.state = "resolved", !.blob = Some(blob)]

Rejected(run, e) == [run EXCEPT !.state = "thrown", !.thrown = Some(e)]

\* a compressionLevel outside 0..99 is refused before anything runs
compressPDFLosslessValidates ==
  /\ pc = "pending"
  /\ quality = "lossless"
  /\ IF levelOpt # Absent /\ levelOpt \notin 0..99
     THEN /\ error' = Some(ErrorObj("compressionLevel out of range"))
          /\ pc' = "failed"
          /\ UNCHANGED << index, progress, runs >>
     ELSE /\ index' = 0
          /\ progress' =
               << Event(5, "Preparing lossless engines..."),
                  Event(startProgress(0, totalEngines),
                        RunningStatus(LOSSLESS_ENGINES[1], 0)) >>
          /\ runs' = << Executing(LOSSLESS_ENGINES[1]) >>
          /\ pc' = "engine"
          /\ UNCHANGED error
  /\ UNCHANGED << outside, pixmaps, streamedAt,
                  file, quality, levelOpt, results, streamed, engineResults,
                  outcome, pageIndex, outPages, mupdfDoc, rendered >>

\* every backend is started at once, as a Promise.all over the list would
compressPDFLosslessParallel ==
  /\ pc = "pending"
  /\ quality = "lossless"
  /\ index' = 0
  /\ progress' = << Event(5, "Preparing lossless engines...") >>
  /\ runs' = [i \in 1..totalEngines |-> Executing(LOSSLESS_ENGINES[i])]
  /\ pc' = "engine"
  /\ UNCHANGED << outside, pixmaps, streamedAt,
                  file, quality, levelOpt, results, streamed, engineResults,
                  outcome, error, pageIndex, outPages, mupdfDoc, rendered >>

\* compressPDF up to its first await, for quality 'lossless': the head of
\* runLosslessEngines and the first iteration up to `await runner.run(file)`
compressPDFLossless ==
  /\ pc = "pending"
  /\ quality = "lossless"
  /\ index' = 0
  /\ progress' =
       << Event(5, "Preparing lossless engines..."),
          Event(startProgress(0, totalEngines), RunningStatus(LOSSLESS_ENGINES[1], 0)) >>
  /\ runs' = << Executing(LOSSLESS_ENGINES[1]) >>
  /\ pc' = "engine"
  /\ UNCHANGED << outside, pixmaps, streamedAt,
                  file, quality, levelOpt, results, streamed, engineResults,
                  outcome, error, pageIndex, outPages, mupdfDoc,
                  rendered >>

\* onEngineResult is called after the 'Finished' progress event
EngineSettledStreamsLate(settled, engineResult) ==
  LET runner == LOSSLESS_ENGINES[index + 1]
      pushed == Append(results, engineResult)
      done == Append(progress,
                     Event(doneProgress(index, totalEngines), FinishedStatus(runner)))
      ended == [runs EXCEPT ![Len(runs)] = settled]
  IN  /\ results' = pushed
      /\ streamed' = Append(streamed, engineResult)
      /\ streamedAt' = Append(streamedAt, Len(done))
      /\ index' = index + 1
      /\ IF index + 1 < totalEngines
         THEN /\ progress' =
                   Append(done,
                          Event(startProgress(index + 1, totalEngines),
                                RunningStatus(LOSSLESS_ENGINES[index + 2],
                                              index + 1)))
              /\ runs' = Append(ended, Executing(LOSSLESS_ENGINES[index + 2]))
              /\ pc' = "engine"
              /\ UNCHANGED engineResults
         ELSE /\ progress' = Append(done, Event(95, "Ranking results..."))
              /\ runs' = ended
              /\ engineResults' = sortLosslessResults(pushed)
              /\ pc' = "ranked"
      /\ UNCHANGED << outside, pixmaps, file, quality, levelOpt, outcome,
                      error, pageIndex, outPages, mupdfDoc, rendered >>

\* the rest of iteration `index` once runner.run has settled as `settled` and
\* engineResult is built, then either the next iteration up to its await or
\* the end of runLosslessEngines
EngineSettled(settled, engineResult) ==
  LET runner == LOSSLESS_ENGINES[index + 1]
      pushed == Append(results, engineResult)
      done == Append(progress,
                     Event(doneProgress(index, totalEngines), FinishedStatus(runner)))
      ended == [runs EXCEPT ![Len(runs)] = settled]
  IN  /\ results' = pushed
      /\ streamed' = Append(streamed, engineResult)
      /\ streamedAt' = Append(streamedAt, Len(progress))
      /\ index' = index + 1
      /\ IF index + 1 < totalEngines
         THEN /\ progress' =
                   Append(done,
                          Event(startProgress(index + 1, totalEngines),
                                RunningStatus(LOSSLESS_ENGINES[index + 2],
                                              index + 1)))
              /\ runs' = Append(ended, Executing(LOSSLESS_ENGINES[index + 2]))
              /\ pc' = "engine"
              /\ UNCHANGED engineResults
         ELSE /\ progress' = Append(done, Event(95, "Ranking results..."))
              /\ runs' = ended
              /\ engineResults' = sortLosslessResults(pushed)
              /\ pc' = "ranked"
      /\ UNCHANGED << outside, pixmaps, file, quality, levelOpt, outcome,
                      error, pageIndex, outPages, mupdfDoc, rendered >>

\* runner.run(file) resolves with a blob of the given size
EngineSucceeds(size) ==
  /\ pc = "engine"
  /\ LET runner == LOSSLESS_ENGINES[index + 1]
         blob == Blob(runner.engine, size)
     IN  EngineSettled(Resolved(runs[Len(runs)], blob),
                       SuccessResult(runner, blob, originalSize,
                                     baseNameFor(file)))

\* the backend calls after a throwing one abort the request, as if the catch
\* of runLosslessEngines rethrew
EngineFailsAborts(e) ==
  /\ pc = "engine"
  /\ runs' = [runs EXCEPT ![Len(runs)] = Rejected(runs[Len(runs)], e)]
  /\ error' = Some(e)
  /\ pc' = "failed"
  /\ UNCHANGED << outside, pixmaps, streamedAt,
                  file, quality, levelOpt, index, results, streamed, progress,
                  engineResults, outcome, pageIndex, outPages, mupdfDoc,
                  rendered >>

\* a backend that threw is invoked again
EngineFailsRetries(e) ==
  /\ pc = "engine"
  /\ runs' =
       Append([runs EXCEPT ![Len(runs)] = Rejected(runs[Len(runs)], e)],
              Executing(LOSSLESS_ENGINES[index + 1]))
  /\ UNCHANGED << outside, pixmaps, streamedAt,
                  pc, file, quality, levelOpt, index, results, streamed,
                  progress, engineResults, outcome, error, pageIndex,
                  outPages, mupdfDoc, rendered >>

\* runner.run(file) throws e
EngineFails(e) ==
  /\ pc = "engine"
  /\ EngineSettled(Rejected(runs[Len(runs)], e),
                   FailedResult(LOSSLESS_ENGINES[index + 1], e))

\* the size is tested for truthiness, so a blob of 0 bytes counts as none
NoUsableBestFalsy(best) ==
  \/ best = Null
  \/ Val(best).blob = Null
  \/ Val(best).compressedSize = Null
  \/ Val(Val(best).compressedSize) = 0

\* `!best || !best.blob || best.compressedSize === null`
NoUsableBest(best) ==
  \/ best = Null
  \/ Val(best).blob = Null
  \/ Val(best).compressedSize = Null

\* a result larger than the input is reported with the input's size
CompressionResultClamped(best, ordered) ==
  [ originalSize |-> originalSize,
    compressedSize |->
      IF Val(best.compressedSize) > originalSize THEN originalSize
      ELSE Val(best.compressedSize),
    blob |-> Val(best.blob),
    fileName |-> baseNameFor(file) \o "_compressed.pdf",
    engine |-> best.engine,
    engineResults |-> ordered ]

CompressionResult(best, ordered) ==
  [ originalSize |-> originalSize,
    compressedSize |-> Val(best.compressedSize),
    blob |-> Val(best.blob),
    fileName |-> baseNameFor(file) \o "_compressed.pdf",
    engine |-> best.engine,
    engineResults |-> ordered ]

\* the final progress call is left out
compressPDFSelectSilent ==
  /\ pc = "ranked"
  /\ LET best == findBest(engineResults)
     IN  IF NoUsableBest(best)
         THEN /\ error' = Some(ErrorObj(allFailedMessage(engineResults)))
              /\ pc' = "failed"
              /\ UNCHANGED outcome
         ELSE /\ outcome' = Some(CompressionResult(Val(best), engineResults))
              /\ pc' = "completed"
              /\ UNCHANGED error
  /\ UNCHANGED << outside, pixmaps, streamedAt,
                  file, quality, levelOpt, index, runs, results, streamed,
                  progress, engineResults, pageIndex, outPages, mupdfDoc,
                  rendered >>

\* compressPDF after `await runLosslessEngines(...)`
compressPDFSelect ==
  /\ pc = "ranked"
  /\ LET best == findBest(engineResults)
     IN  IF NoUsableBest(best)
         THEN /\ error' = Some(ErrorObj(allFailedMessage(engineResults)))
              /\ pc' = "failed"
              /\ UNCHANGED << progress, outcome >>
         ELSE /\ progress' = Append(progress, Event(100, "Compression complete"))
              /\ outcome' = Some(CompressionResult(Val(best), engineResults))
              /\ pc' = "completed"
              /\ UNCHANGED error
  /\ UNCHANGED << outside, pixmaps, streamedAt,
                  file, quality, levelOpt, index, runs, results, streamed,
                  engineResults, pageIndex, outPages, mupdfDoc,
                  rendered >>

(* ---- the aggressive path: compressPDF and compressExtreme ---- *)

compressionLevel == IF levelOpt = Absent THEN DefaultCompressionLevel ELSE levelOpt

\* compressPDF up to `await compressExtreme(file, compressionLevel)`
compressPDFExtreme ==
  /\ pc = "pending"
  /\ quality = "extreme"
  /\ progress' = << Event(10, "Running extreme compression...") >>
  /\ runs' = << Executing([engine |-> "extreme"]) >>
  /\ pc' = "extremeOpen"
  /\ UNCHANGED << outside, pixmaps, streamedAt,
                  file, quality, levelOpt, index, results, streamed,
                  engineResults, outcome, error, pageIndex, outPages,
                  mupdfDoc, rendered >>

\* getMupdf, file.arrayBuffer, openDocument and PDFDocument.create succeed;
\* doc is the document mupdf read from the file
ExtremeOpens(doc) ==
  /\ pc = "extremeOpen"
  /\ Len(doc) = file.pages
  /\ mupdfDoc' = doc
  /\ pageIndex' = 0
  /\ pc' = "extremeLoop"
  /\ UNCHANGED << outside, pixmaps, streamedAt,
                  file, quality, levelOpt, index, runs, results, streamed,
                  progress, engineResults, outcome, error, outPages,
                  rendered >>

\* mupdfDoc.countPages()
pageCount == Len(mupdfDoc)

\* the quality is the one the stale comment names, whatever the slider says
jpegQualityFixed(sliderValue) == 30

\* pixmap.asJPEG(100 - sliderValue)
jpegQuality(sliderValue) == 100 - sliderValue

\* a page rendered to a pixmap and encoded as JPEG
Jpeg(i, q) == [page |-> i, quality |-> q]

\* loop body up to `await pdfLibDoc.embedJpg(jpegData)`
ExtremeRendersPage ==
  /\ pc = "extremeLoop"
  /\ pageIndex < pageCount
  /\ rendered' = Append(rendered, Jpeg(pageIndex, jpegQuality(compressionLevel)))
  /\ \E collected \in SUBSET pixmaps :
       pixmaps' = (pixmaps \ collected) \cup {pageIndex}
  /\ pc' = "extremeEmbed"
  /\ UNCHANGED << outside, streamedAt, file, quality, levelOpt, index, runs,
                  results,
                  streamed, progress, engineResults, outcome, error,
                  pageIndex, outPages, mupdfDoc >>

\* pdfLibDoc.addPage([width, height]) and newPage.drawImage(jpgImage, ...)
NewPage(bounds, image) ==
  [ width |-> bounds[3] - bounds[1],
    height |-> bounds[4] - bounds[2],
    image |-> image ]

\* loop body after embedJpg: getBounds, addPage, drawImage, i++
ExtremePlacesPage ==
  /\ pc = "extremeEmbed"
  /\ outPages' =
       Append(outPages,
              NewPage(mupdfDoc[pageIndex + 1], Some(rendered[Len(rendered)])))
  /\ pageIndex' = pageIndex + 1
  /\ pc' = "extremeLoop"
  /\ UNCHANGED << outside, pixmaps, streamedAt,
                  file, quality, levelOpt, index, runs, results, streamed,
                  progress, engineResults, outcome, error, mupdfDoc,
                  rendered >>

\* the blank page pdf-lib adds on save to a document without pages (A4, in
\* whole points)
DefaultPage == [width |-> 595, height |-> 842, image |-> Null]

\* pdfLibDoc.save() without options: addDefaultPage is true
SavedPages(pages) == IF pages = << >> THEN << DefaultPage >> ELSE pages

\* the Blob of a saved document: its size and its pages
DocumentBlob(size, pages) == [by |-> "extreme", size |-> size, pages |-> pages]

ExtremeResult(blob) ==
  [ originalSize |-> originalSize,
    compressedSize |-> blob.size,
    blob |-> blob,
    fileName |-> baseNameFor(file) \o "_compressed.pdf",
    engine |-> "extreme",
    engineResults |->
      << [ engine |-> "mupdf",
           label |-> "MuPDF Extreme",
           status |-> "success",
           compressedSize |-> Some(blob.size),
           compressionPercent |->
             Some(getCompressionPercent(originalSize, blob.size)),
           blob |-> Some(blob),
           fileName |-> Some(baseNameFor(file) \o "_compressed.pdf"),
           error |-> Null ] >> ]

\* the final progress call is left out
ExtremeSavesSilent(size) ==
  /\ pc = "extremeLoop"
  /\ pageIndex >= pageCount
  /\ LET blob == DocumentBlob(size, SavedPages(outPages))
     IN  /\ outcome' = Some(ExtremeResult(blob))
         /\ runs' = << Resolved(runs[1], blob) >>
  /\ pc' = "completed"
  /\ UNCHANGED << outside, pixmaps, streamedAt,
                  file, quality, levelOpt, index, results, streamed, progress,
                  engineResults, error, pageIndex, outPages, mupdfDoc,
                  rendered >>

\* pdfLibDoc.save() resolves with `size` bytes, compressExtreme returns the
\* blob and compressPDF goes on after its await
ExtremeSaves(size) ==
  /\ pc = "extremeLoop"
  /\ pageIndex >= pageCount
  /\ progress' = Append(progress, Event(100, "Compression complete"))
  /\ LET blob == DocumentBlob(size, SavedPages(outPages))
     IN  /\ outcome' = Some(ExtremeResult(blob))
         /\ runs' = << Resolved(runs[1], blob) >>
  /\ pc' = "completed"
  /\ UNCHANGED << outside, pixmaps, streamedAt,
                  file, quality, levelOpt, index, results, streamed,
                  engineResults, error, pageIndex, outPages, mupdfDoc,
                  rendered >>

\* the error is swallowed and the loop goes on with the next page
ExtremeFailsSkipsPage(e) ==
  /\ pc \in {"extremeOpen", "extremeLoop", "extremeEmbed"}
  /\ runs' = << Rejected(runs[1], e) >>
  /\ pageIndex' = pageIndex + 1
  /\ pc' = "extremeLoop"
  /\ UNCHANGED << outside, pixmaps, streamedAt,
                  file, quality, levelOpt, index, results, streamed,
                  progress, engineResults, outcome, error, outPages,
                  mupdfDoc, rendered >>

\* any step of compressExtreme throws e: its catch rethrows and compressPDF
\* rejects with e
ExtremeFails(e) ==
  /\ pc \in {"extremeOpen", "extremeLoop", "extremeEmbed"}
  /\ error' = Some(e)
  /\ runs' = << Rejected(runs[1], e) >>
  /\ pc' = "failed"
  /\ UNCHANGED << outside, pixmaps, streamedAt,
                  file, quality, levelOpt, index, results, streamed,
                  progress, engineResults, outcome, pageIndex, outPages,
                  mupdfDoc, rendered >>

(* ---- the specification ---- *)

Sizes == 0..MaxSize

Next ==
  \/ compressPDFLossless
  \/ \E size \in Sizes : EngineSucceeds(size)
  \/ \E e \in ThrownValues : EngineFails(e)
  \/ compressPDFSelect
  \/ compressPDFExtreme
  \/ \E doc \in Documents : ExtremeOpens(doc)
  \/ ExtremeRendersPage
  \/ ExtremePlacesPage
  \/ \E size \in Sizes : ExtremeSaves(size)
  \/ \E e \in ThrownValues : ExtremeFails(e)

Spec == Init /\ [][Next]_vars

(* ---- the same request with sinks that can throw ---- *)

\* what a failing onProgress or onEngineResult throws
SinkError == ErrorObj("sink failed")

\* the first onProgress call of the request throws: compressPDF rejects
\* before any backend or compressExtreme is called
SinkThrowsAtStart ==
  /\ pc = "pending"
  /\ progress' =
       IF quality = "extreme"
       THEN << Event(10, "Running extreme compression...") >>
       ELSE << Event(5, "Preparing lossless engines...") >>
  /\ error' = Some(SinkError)
  /\ pc' = "failed"
  /\ UNCHANGED << outside, pixmaps, streamedAt,
                  file, quality, levelOpt, index, runs, results, streamed,
                  engineResults, outcome, pageIndex, outPages, mupdfDoc,
                  rendered >>

\* runner.run(file) resolves, the result is pushed, and onEngineResult throws
\* outside the try: runLosslessEngines and compressPDF reject
SinkThrowsAfterEngine(size) ==
  /\ pc = "engine"
  /\ LET runner == LOSSLESS_ENGINES[index + 1]
         blob == Blob(runner.engine, size)
         engineResult ==
           SuccessResult(runner, blob, originalSize, baseNameFor(file))
     IN  /\ runs' = [runs EXCEPT ![Len(runs)] = Resolved(runs[Len(runs)], blob)]
         /\ results' = Append(results, engineResult)
         /\ streamed' = Append(streamed, engineResult)
         /\ streamedAt' = Append(streamedAt, Len(progress))
  /\ error' = Some(SinkError)
  /\ pc' = "failed"
  /\ UNCHANGED << outside, pixmaps, file, quality, levelOpt, index, progress,
                  engineResults, outcome, pageIndex, outPages, mupdfDoc,
                  rendered >>

\* a best result exists and onProgress(100, ...) throws: compressPDF rejects
SinkThrowsAtComplete ==
  /\ pc = "ranked"
  /\ ~NoUsableBest(findBest(engineResults))
  /\ progress' = Append(progress, Event(100, "Compression complete"))
  /\ error' = Some(SinkError)
  /\ pc' = "failed"
  /\ UNCHANGED << outside, pixmaps, streamedAt,
                  file, quality, levelOpt, index, runs, results, streamed,
                  engineResults, outcome, pageIndex, outPages, mupdfDoc,
                  rendered >>

NextSink ==
  \/ Next
  \/ SinkThrowsAtStart
  \/ \E size \in Sizes : SinkThrowsAfterEngine(size)
  \/ SinkThrowsAtComplete

SpecSink == Init /\ [][NextSink]_vars

(* ---- concurrent adapter calls in one process ---- *)

\* no compressPDF request is modelled next to the adapter calls
RequestIdle ==
  /\ pc = "pending"
  /\ file = [size |-> 0, stem |-> "doc", ext |-> ".pdf", pages |-> 0]
  /\ quality = "lossless"
  /\ levelOpt = Absent
  /\ index = 0
  /\ runs = << >>
  /\ results = << >>
  /\ streamed = << >>
  /\ progress = << >>
  /\ engineResults = << >>
  /\ outcome = Null
  /\ error = Null
  /\ pageIndex = 0
  /\ outPages = << >>
  /\ mupdfDoc = << >>
  /\ rendered = << >>
  /\ pixmaps = {}
  /\ streamedAt = << >>

InitAdapters ==
  /\ RequestIdle
  /\ PageIdle
  /\ callPc = [c \in Calls |-> "idle"]
  /\ callEngine \in [Calls -> AdapterEngines]
  /\ callInit = [c \in Calls |-> "none"]
  /\ callRunId = [c \in Calls |-> 0]
  /\ callExit = [c \in Calls |-> NoExit]
  /\ callError = [c \in Calls |-> Null]
  /\ modulePromise = [e \in WasmEngines |-> "null"]
  /\ mupdf = "null"
  /\ fs = [e \in WasmEngines |-> {}]

NextAdapters ==
  \/ \E c \in Calls : compressLosslessStarts(c)
  \/ \E e \in WasmEngines, ok \in BOOLEAN : ModuleInitSettles(e, ok)
  \/ \E c \in Calls : ModuleAwaited(c)
  \/ \E c \in Calls, runId \in RunIds : AdapterWritesInput(c, runId)
  \/ \E c \in Calls, main \in MainOutcomes : AdapterCallsMain(c, main)
  \/ \E c \in Calls : AdapterReadsOutput(c)
  \/ \E c \in Calls : AdapterCleansUp(c)
  \/ \E c \in Calls : getMupdfStarts(c)
  \/ \E c \in Calls, ok \in BOOLEAN : ImportSettles(c, ok)

SpecAdapters == InitAdapters /\ [][NextAdapters]_vars

(* ---- the compress page: its handlers and the request it awaits ---- *)

\* the files the user can pick
PageFiles == {"a.pdf", "b.pdf"}

IdleStatus == "Compressing your PDF..."

\* the result compressPDF resolves with for a file
ResultOf(f) == [of |-> f]

\* what onProgress passes on during a request
ProgressCalls ==
  { Event(5, "Preparing lossless engines..."), Event(95, "Ranking results...") }

\* handleFileSelect(selectedFile)
handleFileSelect(selectedFile) ==
  /\ uiFile' = Some(selectedFile)
  /\ uiResult' = Null
  /\ uiError' = Null
  /\ uiProgress' = 0
  /\ progressStatus' = IdleStatus
  /\ UNCHANGED << isProcessing, partialResults, inflight >>

\* the FileDropzone is rendered while no result is held, also while
\* processing
FileDropzoneShown == uiResult = Null

\* the FileDropzone passes the file the user picked to onFileSelect
FileDropzoneSelects(f) ==
  /\ FileDropzoneShown
  /\ handleFileSelect(f)
  /\ UNCHANGED << requestVars, adapterVars >>

\* the 'Compress PDF' button is rendered
CompressShown == uiFile # Null /\ uiResult = Null /\ ~isProcessing

\* handleCompress up to `await compressPDF(file, ...)`
handleCompress ==
  /\ CompressShown
  /\ uiFile # Null
  /\ isProcessing' = TRUE
  /\ uiError' = Null
  /\ uiProgress' = 0
  /\ progressStatus' = "Starting compression..."
  /\ uiResult' = Null
  /\ partialResults' = << >>
  /\ inflight' = uiFile
  /\ UNCHANGED << uiFile, requestVars, adapterVars >>

\* the onProgress callback passed to compressPDF
PageOnProgress(event) ==
  /\ inflight # Null
  /\ uiProgress' = event.percent
  /\ progressStatus' = event.status
  /\ UNCHANGED << uiFile, isProcessing, uiResult, partialResults, uiError,
                  inflight, requestVars, adapterVars >>

\* the onEngineResult callback passed to compressPDF
PageOnEngineResult ==
  /\ inflight # Null
  /\ Len(partialResults) < totalEngines
  /\ partialResults' = Append(partialResults, Val(inflight))
  /\ UNCHANGED << uiFile, isProcessing, uiProgress, progressStatus, uiResult,
                  uiError, inflight, requestVars, adapterVars >>

\* the awaited compressPDF resolves: setResult, then the finally
CompressResolves ==
  /\ inflight # Null
  /\ uiResult' = Some(ResultOf(Val(inflight)))
  /\ isProcessing' = FALSE
  /\ inflight' = Null
  /\ UNCHANGED << uiFile, uiProgress, progressStatus, partialResults, uiError,
                  requestVars, adapterVars >>

\* the awaited compressPDF rejects: setError, then the finally
CompressRejects ==
  /\ inflight # Null
  /\ uiError' = Some("Failed to compress PDF")
  /\ isProcessing' = FALSE
  /\ inflight' = Null
  /\ UNCHANGED << uiFile, uiProgress, progressStatus, uiResult,
                  partialResults, requestVars, adapterVars >>

\* handleReset, from the error panel or the result panel
handleReset ==
  /\ uiError # Null \/ uiResult # Null
  /\ uiFile' = Null
  /\ uiResult' = Null
  /\ partialResults' = << >>
  /\ uiError' = Null
  /\ uiProgress' = 0
  /\ progressStatus' = IdleStatus
  /\ UNCHANGED << isProcessing, inflight, requestVars, adapterVars >>

\* handleTryAgain, from the result panel
handleTryAgain ==
  /\ uiResult # Null
  /\ uiResult' = Null
  /\ partialResults' = << >>
  /\ uiError' = Null
  /\ uiProgress' = 0
  /\ progressStatus' = IdleStatus
  /\ UNCHANGED << uiFile, isProcessing, inflight, requestVars, adapterVars >>

InitPage == RequestIdle /\ AdaptersIdle /\ PageIdle

NextPage ==
  \/ \E f \in PageFiles : FileDropzoneSelects(f)
  \/ handleCompress
  \/ \E event \in ProgressCalls : PageOnProgress(event)
  \/ PageOnEngineResult
  \/ CompressResolves
  \/ CompressRejects
  \/ handleReset
  \/ handleTryAgain

SpecPage == InitPage /\ [][NextPage]_vars

Running == {"engine", "ranked", "extremeOpen", "extremeLoop", "extremeEmbed"}

Terminal == {"completed", "failed"}

\* runLosslessEngines has returned
Returned == {"ranked", "completed", "failed"}

TypeOK ==
  /\ pc \in {"pending"} \cup Running \cup Terminal
  /\ index \in 0..totalEngines
  /\ Len(results) = index

(* ---- claims ---- *)

Lossless == quality = "lossless"

\* the position of a backend in the registration order
Position(engine) ==
  CHOOSE i \in 1..totalEngines : LOSSLESS_ENGINES[i].engine = engine

Threw(i) == i \in DOMAIN runs /\ runs[i].state = "thrown"

Succeeded(i) == i \in DOMAIN runs /\ runs[i].state = "resolved"

\* C1: whenever backend i of a structural request has thrown, whatever it
\* threw, results holds a 'failed' result for backend i at position i, the
\* next backend has been invoked, and once the request has ended every
\* registered backend has been invoked.
C1_FailureIsolation ==
  Lossless =>
    /\ \A i \in 1..totalEngines :
         Threw(i) =>
           /\ Len(results) >= i
           /\ results[i].status = "failed"
           /\ results[i].engine = LOSSLESS_ENGINES[i].engine
           /\ i < totalEngines => Len(runs) > i
    /\ pc \in Terminal =>
         /\ Len(runs) = totalEngines
         /\ \A i \in 1..totalEngines : Threw(i) \/ Succeeded(i)

\* a request ended in which a backend threw and a later one was run and
\* returned a blob
C1_Witness ==
  /\ Lossless
  /\ pc \in Terminal
  /\ \E i \in 1..totalEngines, j \in 1..totalEngines :
       i < j /\ Threw(i) /\ Succeeded(j)
  /\ \E i \in 1..totalEngines : Threw(i) /\ Val(runs[i].thrown) = OtherVal

\* C2: once runLosslessEngines has returned, whatever each backend did, the
\* returned sequence has exactly as many results as there are registered
\* backends and every registered backend id occurs in it exactly once.
C2_OneResultPerBackend ==
  (Lossless /\ pc \in Returned) =>
    /\ Len(engineResults) = totalEngines
    /\ \A i \in 1..totalEngines :
         Cardinality({ k \in 1..Len(engineResults) :
                         engineResults[k].engine = LOSSLESS_ENGINES[i].engine })
           = 1

\* runLosslessEngines returned after some backends failed and some succeeded
C2_Witness ==
  /\ Lossless
  /\ pc \in Returned
  /\ \E i \in 1..totalEngines, j \in 1..totalEngines : Threw(i) /\ Succeeded(j)
  /\ Len(engineResults) = totalEngines

SuccessSizes == { Val(runs[i].blob).size : i \in { k \in 1..Len(runs) : Succeeded(k) } }

\* C3: a structural request in which at least one backend succeeded ends
\* with an outcome whose blob, compressedSize and engine are those of one
\* successful backend, and no successful backend produced a smaller blob.
C3_BestIsSmallest ==
  (Lossless /\ pc \in Terminal /\ \E i \in 1..totalEngines : Succeeded(i)) =>
    /\ outcome # Null
    /\ \E i \in 1..totalEngines :
         /\ Succeeded(i)
         /\ Val(outcome).blob = Val(runs[i].blob)
         /\ Val(outcome).engine = runs[i].engine
         /\ Val(outcome).compressedSize = Val(runs[i].blob).size
    /\ \A n \in SuccessSizes : Val(outcome).compressedSize <= n

\* a request ended whose successful backends produced different sizes, the
\* smallest of them not by the first backend that succeeded
C3_Witness ==
  /\ Lossless
  /\ pc = "completed"
  /\ Cardinality(SuccessSizes) >= 2
  /\ \E i \in 1..totalEngines, j \in 1..totalEngines :
       /\ i < j
       /\ Succeeded(i)
       /\ Succeeded(j)
       /\ Val(runs[j].blob).size < Val(runs[i].blob).size
       /\ Val(outcome).engine = runs[j].engine

\* C4: in the ordered results of a structural request no failed result
\* stands before a successful one.
C4_FailuresLast ==
  (Lossless /\ pc \in Returned) =>
    \A i \in 1..Len(engineResults), j \in 1..Len(engineResults) :
      (i < j) =>
        ~(engineResults[i].status = "failed"
            /\ engineResults[j].status = "success")

\* the ordered results of a request in which a backend failed before another
\* one succeeded
C4_Witness ==
  /\ Lossless
  /\ pc \in Returned
  /\ \E i \in 1..totalEngines, j \in 1..totalEngines :
       i < j /\ Threw(i) /\ Succeeded(j)
  /\ engineResults[totalEngines].status = "failed"

\* the reason recorded for a thrown value
ReasonOf(e) ==
  IF e.kind = "other" \/ e.message \in Blank
  THEN "Unknown compression error"
  ELSE e.message

\* the reasons of every backend, in invocation order, each after the label
AggregateMessage ==
  Join([i \in 1..totalEngines |->
          LOSSLESS_ENGINES[i].label \o ": " \o ReasonOf(Val(runs[i].thrown))],
       " | ")

\* C5: a structural request in which every backend threw ends failed, after
\* all backends were run and recorded, with an Error whose message is the
\* backends' reasons in invocation order joined by ' | ', which is not empty.
C5_AllFailedMessage ==
  (Lossless /\ pc \in Terminal /\ \A i \in 1..totalEngines : Threw(i)) =>
    /\ pc = "failed"
    /\ outcome = Null
    /\ Len(results) = totalEngines
    /\ error = Some(ErrorObj(AggregateMessage))
    /\ Val(error).message # ""

\* a request failed in which every backend threw, one of them a value without
\* a usable message
C5_Witness ==
  /\ Lossless
  /\ pc = "failed"
  /\ \A i \in 1..totalEngines : Threw(i)
  /\ \E i \in 1..totalEngines : Val(runs[i].thrown) = StringVal("")
  /\ \E i \in 1..totalEngines : Val(runs[i].thrown) = ErrorObj("out of memory")

Extreme == quality = "extreme"

C6_TerminalStates ==
  /\ (Lossless /\ pc \in Terminal) =>
       /\ pc = "completed" <=> \E i \in 1..totalEngines : Succeeded(i)
       /\ pc = "failed" <=> \A i \in 1..totalEngines : Threw(i)
  /\ (Extreme /\ pc \in Terminal) =>
       /\ pc = "failed" <=> Threw(1)
       /\ pc = "completed" <=> Succeeded(1)

C6_Step ==
  /\ pc = "pending" => pc' \in Running
  /\ pc \in Running => pc' \in Running \cup Terminal
  /\ pc \in Terminal => UNCHANGED << pc, runs, pageIndex, outPages, rendered >>

\* C6: a request goes from pending through running to completed or failed;
\* a structural request is completed exactly when a backend succeeded and
\* failed exactly when all of them threw; an aggressive request is failed
\* exactly when compressExtreme threw; after a terminal state no backend is
\* invoked and no page is processed.
C6_StateMachine == [](C6_TerminalStates) /\ [][C6_Step]_vars

\* a structural request completed with a single successful backend, of 0
\* bytes, the other three having failed
C6_Witness ==
  /\ Lossless
  /\ pc = "completed"
  /\ Cardinality({ i \in 1..totalEngines : Threw(i) }) = totalEngines - 1
  /\ SuccessSizes = {0}

LastEvent == progress[Len(progress)]

Percents(p) == { k \in 1..Len(progress) : progress[k].percent = p }

\* C7: a structural request in which a backend failed and another succeeded
\* ends completed, and its last progress event, and only that one, is
\* 100% 'Compression complete'.
C7_PartialFailureCompletes ==
  ( /\ Lossless
    /\ pc \in Terminal
    /\ \E i \in 1..totalEngines, j \in 1..totalEngines :
         Threw(i) /\ Succeeded(j) ) =>
    /\ pc = "completed"
    /\ LastEvent = Event(100, "Compression complete")
    /\ Percents(100) = {Len(progress)}

\* a request ended in which the last backend failed and an earlier one
\* succeeded
C7_Witness ==
  /\ Lossless
  /\ pc \in Terminal
  /\ Threw(totalEngines)
  /\ \E j \in 1..totalEngines : Succeeded(j)

\* C8 as stated: every request that has finished, completed or failed, has
\* emitted a 100% progress event.
C8_Original == pc \in Terminal => Percents(100) # {}

\* C8 amended: a request that finished completed has emitted 100% as its last
\* progress event; a request that finished failed has emitted no 100% event,
\* its last event being 95% on the structural path and 10% on the aggressive
\* path.
C8_CompletedEndsAt100 ==
  /\ pc = "completed" =>
       /\ Percents(100) = {Len(progress)}
       /\ LastEvent.status = "Compression complete"
  /\ pc = "failed" =>
       /\ Percents(100) = {}
       /\ LastEvent.percent = IF Lossless THEN 95 ELSE 10

\* a structural request failed, every backend having thrown, its last
\* progress event being 95%
C8_Witness ==
  /\ Lossless
  /\ pc = "failed"
  /\ \A i \in 1..totalEngines : Threw(i)
  /\ LastEvent = Event(95, "Ranking results...")

\* the bands of a list of n backends: each inside 10..90, each starting where
\* the one before ended
BandsOrdered(n) ==
  \A i \in 0..(n - 1) :
    /\ 10 <= startProgress(i, n)
    /\ startProgress(i, n) <= doneProgress(i, n)
    /\ doneProgress(i, n) <= 90
    /\ i + 1 < n => doneProgress(i, n) <= startProgress(i + 1, n)

\* C9: the percentages passed to onProgress in a request never decrease, on
\* either path; and for every list of 1..MaxEngines backends the band
\* percentages lie between the 5% before and the 95% after, in order.
C9_ProgressMonotonic ==
  /\ \A i \in 1..Len(progress), j \in 1..Len(progress) :
       i < j => progress[i].percent <= progress[j].percent
  /\ \A n \in 1..MaxEngines : BandsOrdered(n)

\* a structural request completed after a failure, with all its events
C9_Witness ==
  /\ Lossless
  /\ pc = "completed"
  /\ Threw(2)
  /\ Len(progress) = 2 + 2 * totalEngines + 1

\* C10: in the ordered results two successes of equal size stand in
\* invocation order, and so do any two failed results, which come after all
\* successes.
C10_StableRanking ==
  (Lossless /\ pc \in Returned) =>
    \A i \in 1..Len(engineResults), j \in 1..Len(engineResults) :
      (i < j) =>
        LET a == engineResults[i]
            b == engineResults[j]
        IN  /\ ( /\ a.status = "success"
                 /\ b.status = "success"
                 /\ a.compressedSize = b.compressedSize ) =>
                 Position(a.engine) < Position(b.engine)
            /\ (a.status = "failed" /\ b.status = "failed") =>
                 Position(a.engine) < Position(b.engine)
            /\ a.status = "failed" => b.status = "failed"

\* ordered results with two successes of equal size, a smaller success by a
\* later backend, and two failures
C10_Witness ==
  /\ Lossless
  /\ pc \in Returned
  /\ Succeeded(1)
  /\ Threw(2)
  /\ Succeeded(3)
  /\ Succeeded(4)
  /\ Val(runs[1].blob).size = Val(runs[3].blob).size
  /\ Val(runs[4].blob).size < Val(runs[1].blob).size

\* C11: the backends invoked in a structural request are, in order, the
\* registered backends: the calls made so far are a prefix of the registered
\* list, so none is made twice, and once runLosslessEngines has returned
\* they are the whole list.
C11_InvocationOrder ==
  Lossless =>
    /\ Len(runs) <= totalEngines
    /\ \A i \in 1..Len(runs) : runs[i].engine = LOSSLESS_ENGINES[i].engine
    /\ pc \in Returned => Len(runs) = totalEngines

\* a request ended in which the first and the third backend threw
C11_Witness ==
  /\ Lossless
  /\ pc \in Terminal
  /\ Threw(1)
  /\ Threw(3)
  /\ Len(runs) = totalEngines

ExecutingCalls == { i \in 1..Len(runs) : runs[i].state = "executing" }

\* C12: at most one backend call is executing at any time and it is the
\* latest one, every earlier call having returned or thrown; in aggressive
\* mode the pages are rendered in order, page j+1 only once page j has been
\* rendered, encoded and placed.
C12_OneAtATime ==
  /\ Cardinality(ExecutingCalls) <= 1
  /\ ExecutingCalls \subseteq {Len(runs)}
  /\ Extreme =>
       /\ Len(outPages) <= Len(rendered)
       /\ Len(rendered) <= Len(outPages) + 1
       /\ \A k \in 1..Len(rendered) : rendered[k].page = k - 1
       /\ \A k \in 1..Len(outPages) : outPages[k].image = Some(rendered[k])

\* the third backend is executing after the second one threw
C12_Witness ==
  /\ Lossless
  /\ pc = "engine"
  /\ Threw(2)
  /\ ExecutingCalls = {3}

\* C13 as stated: the sequence runLosslessEngines returns has the result of
\* the i-th registered backend as its i-th element.
C13_Original ==
  (Lossless /\ pc \in Returned) =>
    \A i \in 1..Len(engineResults) :
      engineResults[i].engine = LOSSLESS_ENGINES[i].engine

\* C13 amended: runLosslessEngines collects and streams the results in
\* invocation order, the i-th one being that of the i-th registered backend,
\* but the sequence it returns is that collection ranked: the same results,
\* the successes first in ascending size.
C13_CollectedInOrderReturnedRanked ==
  Lossless =>
    /\ \A i \in 1..Len(results) :
         /\ results[i].engine = LOSSLESS_ENGINES[i].engine
         /\ results[i].status = "success" <=> Succeeded(i)
    /\ streamed = results
    /\ pc \in Returned =>
         /\ Len(engineResults) = Len(results)
         /\ { engineResults[k] : k \in 1..Len(engineResults) }
              = { results[k] : k \in 1..Len(results) }
         /\ \A i \in 1..Len(engineResults), j \in 1..Len(engineResults) :
              ( /\ i < j
                /\ engineResults[i].status = "success"
                /\ engineResults[j].status = "success" ) =>
                Val(engineResults[i].compressedSize)
                  <= Val(engineResults[j].compressedSize)

\* runLosslessEngines returned a sequence that differs from the collected
\* one: the first backend's blob is larger than the second's
C13_Witness ==
  /\ Lossless
  /\ pc \in Returned
  /\ Succeeded(1)
  /\ Succeeded(2)
  /\ Val(runs[2].blob).size < Val(runs[1].blob).size
  /\ engineResults # results

\* the result of the i-th backend, from the file and from what the backend
\* did alone
ResultOfRun(i) ==
  IF runs[i].state = "resolved"
  THEN SuccessResult(LOSSLESS_ENGINES[i], Val(runs[i].blob), file.size,
                     baseNameFor(file))
  ELSE FailedResult(LOSSLESS_ENGINES[i], Val(runs[i].thrown))

\* the ordered results of a structural request, from the file and from what
\* the backends did alone
ResultsOfRuns == sortLosslessResults([i \in 1..totalEngines |-> ResultOfRun(i)])

\* how a structural request ends, from the file and from what the backends
\* did alone: what it resolves with, what it rejects with
EndOfRuns ==
  LET best == findBest(ResultsOfRuns)
  IN  IF best = Null
      THEN [outcome |-> Null,
            error |-> Some(ErrorObj(allFailedMessage(ResultsOfRuns)))]
      ELSE [outcome |-> Some(CompressionResult(Val(best), ResultsOfRuns)),
            error |-> Null]

\* C14: a structural request invokes the registered backends and ends as the
\* file and the backends' behaviour alone determine, whatever the
\* compressionLevel option is (absent, inside or outside 0..99); it never
\* fails unless every backend threw.
C14_LevelIgnoredInLossless ==
  (Lossless /\ pc \in Terminal) =>
    /\ Len(runs) = totalEngines
    /\ \A i \in 1..totalEngines : runs[i].engine = LOSSLESS_ENGINES[i].engine
    /\ engineResults = ResultsOfRuns
    /\ outcome = EndOfRuns.outcome
    /\ error = EndOfRuns.error
    /\ pc = "failed" => \A i \in 1..totalEngines : Threw(i)

\* a structural request with a compressionLevel outside 0..99 completed
C14_Witness ==
  /\ Lossless
  /\ pc = "completed"
  /\ levelOpt = 150
  /\ Threw(1)

\* the aggressiveness of an aggressive request: the option, 70 when absent
Aggressiveness == IF levelOpt = Absent THEN 70 ELSE levelOpt

OutputPages == Val(outcome).blob.pages

\* C16: when rasterization succeeds the output document has as many pages as
\* the input document, and each output page has the width and height of the
\* bounds of the input page at the same index.
C16_PagesPreserved ==
  (Extreme /\ pc = "completed") =>
    /\ Len(OutputPages) = Len(mupdfDoc)
    /\ \A k \in 1..Len(mupdfDoc) :
         /\ OutputPages[k].width = mupdfDoc[k][3] - mupdfDoc[k][1]
         /\ OutputPages[k].height = mupdfDoc[k][4] - mupdfDoc[k][2]

\* C17: a request whose input document has no pages ends failed (with an
\* UnsupportedInput error) in both modes; it never resolves with an outcome.
C17_ZeroPagesUnsupported ==
  (file.pages = 0 /\ pc \in Terminal) =>
    /\ pc = "failed"
    /\ outcome = Null

\* C18: when a step of an aggressive request throws, on whatever page, the
\* request is failed with the thrown value, it has no outcome, and no page
\* after the one being processed has been rendered or placed.
C18_PageFailureAborts ==
  (Extreme /\ Threw(1)) =>
    /\ pc = "failed"
    /\ outcome = Null
    /\ error = runs[1].thrown
    /\ Len(outPages) = pageIndex
    /\ Len(rendered) <= pageIndex + 1

\* an aggressive request over two pages failed while the first page was
\* being embedded: the second page was never rendered
C18_Witness ==
  /\ Extreme
  /\ pc = "failed"
  /\ file.pages = 2
  /\ Len(rendered) = 1
  /\ outPages = << >>

C20_FireAndForget ==
  (Lossless /\ pc \in Terminal) =>
    /\ Len(runs) = totalEngines
    /\ \A i \in 1..totalEngines : Threw(i) \/ Succeeded(i)
    /\ outcome = EndOfRuns.outcome
    /\ error = EndOfRuns.error

\* C21: the percent recorded for a successful backend is an integer in
\* 0..100, 0 when the input has size 0, otherwise the integer nearest to
\* (original - compressed) / original * 100.
C21_PercentInRange ==
  \A i \in 1..Len(results) :
    results[i].status = "success" =>
      LET p == Val(results[i].compressionPercent)
          original == file.size
          compressed == Val(results[i].compressedSize)
          twice == 2 * (p * original - (original - compressed) * 100)
      IN  /\ p \in 0..100
          /\ original = 0 => p = 0
          /\ original > 0 => (-original <= twice /\ twice <= original)

\* the Running event of call i (1-based) and the Finished event after it
RunningEvent(i) ==
  Event(startProgress(i - 1, totalEngines),
        RunningStatus(LOSSLESS_ENGINES[i], i - 1))

FinishedEvent(i) ==
  Event(doneProgress(i - 1, totalEngines), FinishedStatus(LOSSLESS_ENGINES[i]))

\* C22: in a structural request the progress events after 'Preparing' are,
\* per backend invoked so far and in order, its 'Running' event followed,
\* once it has ended, by its 'Finished' event; while a backend is executing
\* its 'Running' event is the last event emitted; the percentage of a
\* 'Finished' event is that of the next 'Running' event, and all of them lie
\* in 10..90.
C22_ProgressBands ==
  (Lossless /\ pc # "pending") =>
    /\ Len(progress) >= 2 * Len(runs)
    /\ \A i \in 1..Len(runs) :
         /\ progress[2 * i] = RunningEvent(i)
         /\ progress[2 * i].percent \in 10..90
         /\ (Threw(i) \/ Succeeded(i)) =>
              /\ Len(progress) >= 2 * i + 1
              /\ progress[2 * i + 1] = FinishedEvent(i)
              /\ progress[2 * i + 1].percent \in 10..90
              /\ i < totalEngines =>
                   progress[2 * i + 1].percent = RunningEvent(i + 1).percent
         /\ i \in ExecutingCalls => Len(progress) = 2 * i
         /\ i > 1 => progress[2 * i - 1].percent = progress[2 * i].percent

\* every backend has run, one of them failing, and the events of all bands
\* were emitted
C22_Witness ==
  /\ Lossless
  /\ pc = "ranked"
  /\ Threw(3)
  /\ Succeeded(4)
  /\ progress[2 * totalEngines + 1] = FinishedEvent(totalEngines)
  /\ progress[2 * totalEngines + 1].percent = 90
  /\ progress[2].percent = 10

\* C25: while compressExtreme rasterizes, at most one page's pixmap is
\* allocated at any time: the pixmap of page j is released before page j+1
\* is rendered.
C25_OnePixmapLive ==
  Extreme => Cardinality(pixmaps) <= 1

Ended(c) == callPc[c] \in {"done", "failed"}

\* C23: once a call of the qpdf or ghostscript adapter that wrote its input
\* file has ended, by returning a blob or by failing (callMain threw, exit
\* code not 0, output file missing), neither its scratch input file nor its
\* scratch output file is in the module's file system: no file written by
\* that call remains, and no file at all is at its two paths unless a later
\* call that drew the same run id is writing there.
C23_ScratchFilesRemoved ==
  \A c \in Calls :
    (callEngine[c] \in WasmEngines /\ Ended(c) /\ callRunId[c] # 0) =>
      /\ \A f \in fs[callEngine[c]] : f.by # c
      /\ ~Busy =>
           /\ ~Exists(fs[callEngine[c]], inputPath(callRunId[c]))
           /\ ~Exists(fs[callEngine[c]], outputPath(callRunId[c]))

\* a call failed on its exit code after the output file had been written,
\* another one returned a blob
C23_Witness ==
  \E c \in Calls, d \in Calls :
    /\ callEngine[c] \in WasmEngines
    /\ callPc[c] = "failed"
    /\ callExit[c] = [exitCode |-> 1, output |-> TRUE, threw |-> FALSE]
    /\ callEngine[d] \in WasmEngines
    /\ callPc[d] = "done"
    /\ callRunId[d] # 0

\* the calls of an adapter that entered its initialization step
Inits(e) == { c \in Calls : callEngine[c] = e /\ callInit[c] = "entered" }

InitFailed(c) == callPc[c] = "failed" /\ callError[c] = Some(InitError(callEngine[c]))

\* C24: for each backend, at most one call has entered the initialization
\* of its execution environment without that initialization having failed;
\* every other call reuses the cached environment.
C24_InitializedOnce ==
  \A e \in AdapterEngines :
    Cardinality({ c \in Inits(e) : ~InitFailed(c) }) <= 1

\* C28: in each module's file system the scratch files of at most one call
\* exist at any time, and only while that call is inside its synchronous
\* stretch; the input file a call wrote, and the output file its callMain
\* wrote, are still its own when it reads and unlinks them, also when
\* another call used the same run id.
C28_ScratchFilesNotShared ==
  /\ Cardinality({ c \in Calls : OnStack(c) }) <= 1
  /\ \A e \in WasmEngines :
       /\ Cardinality({ f.by : f \in fs[e] }) <= 1
       /\ \A f \in fs[e] : OnStack(f.by) /\ callEngine[f.by] = e
  /\ \A c \in Calls :
       /\ callPc[c] \in {"written", "ran"} =>
            [path |-> inputPath(callRunId[c]), by |-> c] \in fs[callEngine[c]]
       /\ (callPc[c] = "ran" /\ callExit[c].output) =>
            [path |-> outputPath(callRunId[c]), by |-> c] \in fs[callEngine[c]]

\* a call is about to read its output while an earlier call of the same
\* adapter, which used the same run id, has ended
C28_Witness ==
  \E c \in Calls, d \in Calls :
    /\ c # d
    /\ callEngine[c] = callEngine[d]
    /\ callEngine[c] \in WasmEngines
    /\ callRunId[c] = callRunId[d]
    /\ callPc[d] = "done"
    /\ callPc[c] = "ran"
    /\ callExit[c].output

\* C29: if the initialization of the qpdf or ghostscript module failed, no
\* later call enters it again and every call of that adapter that got past
\* its await of the module has failed with the initialization's error
\* without touching the file system; a mupdf call skips the initialization
\* only when the module is loaded, so after a failed one the next call
\* enters it again.
C29_FailedInitCached ==
  /\ \A e \in WasmEngines :
       /\ Cardinality(Inits(e)) <= 1
       /\ modulePromise[e] = "rejected" =>
            \A c \in Calls :
              (callEngine[c] = e /\ callPc[c] \notin {"idle", "awaitModule"}) =>
                /\ callPc[c] = "failed"
                /\ callError[c] = Some(InitError(e))
                /\ callRunId[c] = 0
  /\ \A c \in Calls :
       (callEngine[c] = "mupdf" /\ callInit[c] = "reused") => mupdf = "module"

\* both calls of one WASM adapter failed on the rejected module promise, the
\* second one without entering the initialization
C29_Witness ==
  \E e \in WasmEngines, c \in Calls, d \in Calls :
    /\ callEngine[c] = e
    /\ callEngine[d] = e
    /\ modulePromise[e] = "rejected"
    /\ callInit[c] = "entered"
    /\ callInit[d] = "reused"
    /\ InitFailed(c)
    /\ InitFailed(d)

WellFormed(r) ==
  /\ r.status \in {"success", "failed"}
  /\ r.status = "success" =>
       /\ r.blob # Null
       /\ r.compressedSize # Null
       /\ r.fileName # Null
       /\ r.compressionPercent # Null
       /\ r.error = Null
  /\ r.status = "failed" =>
       /\ r.blob = Null
       /\ r.compressedSize = Null
       /\ r.fileName = Null
       /\ r.compressionPercent = Null
       /\ r.error # Null
       /\ Val(r.error) # ""
       /\ Trim(Val(r.error)) # ""

\* C26: every per-backend result, as collected, as streamed and as returned,
\* is either a success with blob, size, file name and percent and no error,
\* or a failure with none of them and a non-empty error message, which is
\* 'Unknown compression error' when the thrown value has no usable message.
C26_ResultsWellFormed ==
  /\ \A i \in 1..Len(results) : WellFormed(results[i])
  /\ \A i \in 1..Len(streamed) : WellFormed(streamed[i])
  /\ \A i \in 1..Len(engineResults) : WellFormed(engineResults[i])
  /\ outcome # Null =>
       \A i \in 1..Len(Val(outcome).engineResults) :
         WellFormed(Val(outcome).engineResults[i])
  /\ \A i \in 1..Len(results) :
       /\ Succeeded(i) <=> results[i].status = "success"
       /\ Threw(i) <=> results[i].status = "failed"
       /\ (Threw(i) /\ Trim(Val(runs[i].thrown).message) = "") =>
            results[i].error = Some("Unknown compression error")

\* a request completed in which one backend threw a blank message, one
\* threw a usable one and one succeeded
C26_Witness ==
  /\ Lossless
  /\ pc = "completed"
  /\ Threw(1)
  /\ Val(runs[1].thrown).message = "  "
  /\ results[1].error = Some("Unknown compression error")
  /\ Threw(2)
  /\ results[2].error = Some("out of memory")
  /\ Succeeded(3)

\* C27: in a structural request onEngineResult has been called once for
\* each backend whose run has ended and for no other, with that backend's
\* result, in invocation order, after the backend's 'Running' event and
\* before its 'Finished' event; the results streamed are those of the
\* ordered list returned; in aggressive mode it is never called.
C27_StreamedOncePerBackend ==
  /\ Lossless =>
       /\ streamed = results
       /\ Len(streamedAt) = Len(streamed)
       /\ \A i \in 1..Len(runs) :
            i <= Len(streamed) <=> (Threw(i) \/ Succeeded(i))
       /\ \A i \in 1..Len(streamed) :
            /\ streamed[i].engine = LOSSLESS_ENGINES[i].engine
            /\ streamedAt[i] = 2 * i
            /\ progress[streamedAt[i]] = RunningEvent(i)
            /\ Len(progress) > streamedAt[i]
            /\ progress[streamedAt[i] + 1] = FinishedEvent(i)
       /\ pc \in Returned =>
            /\ Len(streamed) = totalEngines
            /\ Len(engineResults) = totalEngines
            /\ { streamed[i] : i \in 1..Len(streamed) }
                 = { engineResults[i] : i \in 1..Len(engineResults) }
  /\ Extreme => (streamed = << >> /\ streamedAt = << >>)

\* a completed structural request whose ordered list differs from the
\* order in which the results were streamed
C27_Witness ==
  /\ Lossless
  /\ pc = "completed"
  /\ Threw(1)
  /\ Len(streamed) = totalEngines
  /\ streamed # engineResults


====
